---- MODULE Spec2Model ----
(***************************************************************************)
(* Model of the analytics core of ElectricityPriceCalculator:              *)
(*   generatePriceFromWeather (services/mockData)                          *)
(*   performTimeSeriesCV, computeAggregateMetrics, predictHorizon          *)
(*   (services/mlUtils)                                                    *)
(* and of the refresh cycles of the component that calls it:               *)
(*   Dashboard.refreshData and its triggers (components/Dashboard)         *)
(*                                                                         *)
(* Numbers.  A JavaScript number is modelled as a one-element sequence     *)
(* <<v>> when it is finite and as the empty sequence when it is not        *)
(* (NaN, +-Infinity); the same encoding is used for an optional field      *)
(* (<<>> is undefined).  Prices are counted in half cents (1 EUR/MWh =     *)
(* 200 units) so that toFixed(2) is a real rounding; intermediate values   *)
(* are exact rationals [n, d].  Temperatures are whole degrees Celsius.    *)
(* Times are minutes since the epoch; a timestamp string is modelled by    *)
(* the instant it denotes, <<t>>, or <<>> when Date cannot parse it.       *)
(***************************************************************************)
EXTENDS Integers, Sequences, FiniteSets, TLC

VARIABLES
  weatherData,   \* argument weatherData of generatePriceFromWeather
  spotPrices,    \* argument spotPrices
  modelType,     \* argument modelType
  pc,            \* position of the harness that calls the core
  series,        \* value returned by generatePriceFromWeather (or Threw)
  otherWeather,  \* weather argument of the comparison call
  otherModel,    \* model argument of the comparison call
  otherSeries,   \* value returned by the comparison call
  cvData,        \* argument data of performTimeSeriesCV
  cvResults,     \* value returned by performTimeSeriesCV
  cvMetrics,     \* value returned by computeAggregateMetrics
  cvFolds,       \* the boundaries and the test slice of each fold of that call
  fetched,       \* the arrays as they were handed to the first call
  perModel,      \* model name -> what the first call under that name returned
  callState,     \* number of calls made, and lagHistory and prevPrice as the
                 \* latest call left them
  walk,          \* globalMean and the per-sample locals of the latest pass over
                 \* the sorted samples
  pairsArg,      \* argument pairs of estimateTemperatureBeta
  betaOut,       \* value returned by estimateTemperatureBeta
  dashboard,     \* the state hooks of the Dashboard component
  inFlight,      \* the invocations of refreshData that await their fetches,
                 \* each with the selectedModel its closure captured
  lastCycle,     \* the locals of the invocation of refreshData that resumed last
                 \* while the component was mounted
  mounted,       \* whether the Dashboard component is mounted
  refreshInterval, \* refreshInterval.current
  timers         \* the intervals of the window that are armed, each with the
                 \* selectedModel captured by the refreshData it calls

engineVars == <<weatherData, spotPrices, modelType, series,
                otherWeather, otherModel, otherSeries>>
cvVars == <<cvData, cvResults, cvMetrics, cvFolds>>
callVars == <<fetched, perModel, callState>>
betaVars == <<pairsArg, betaOut>>
walkVars == <<walk>>
dashVars == <<dashboard, inFlight, lastCycle, mounted, refreshInterval, timers>>
vars == <<pc, engineVars, cvVars, callVars, betaVars, walkVars, dashVars>>

(***************************************************************************)
(* Bounds of the model                                                     *)
(***************************************************************************)
MaxWeather == 2
MaxPrices == 2
MaxPoints == 21
MaxOdd == 1
MaxScored == 3
MaxCalls == 4
MantissaBits == 4
MaxPairs == 3
MaxSamples == 4
MaxInFlight == 2

(***************************************************************************)
(* Program constants                                                       *)
(***************************************************************************)
MinutesPerHour == 60
HoursPerDay == 24
comfortTemp == 15
ClampLow == -20
ClampHigh == 450
BetaLowTenths == -25
BetaHigh == 6
MinHistorical == 12
folds == 4
MinFoldSize == 2
SyntheticLength == 48
SyntheticPast == 24

(***************************************************************************)
(* Arithmetic helpers                                                      *)
(***************************************************************************)
Abs(x) == IF x < 0 THEN -x ELSE x

RECURSIVE Gcd(_, _)
Gcd(a, b) == IF b = 0 THEN a ELSE Gcd(b, a % b)

Lcm(a, b) == (a \div Gcd(a, b)) * b

\* exact rational n/d, d > 0, in lowest terms
Rat(n, d) ==
  IF d = 1 THEN [n |-> n, d |-> 1]
  ELSE IF n = 0 THEN [n |-> 0, d |-> 1]
  ELSE [n |-> n \div Gcd(Abs(n), d), d |-> d \div Gcd(Abs(n), d)]

RInt(i) == [n |-> i, d |-> 1]

RAdd(a, b) ==
  IF a.d = b.d THEN Rat(a.n + b.n, a.d)
  ELSE Rat(a.n * (Lcm(a.d, b.d) \div a.d) + b.n * (Lcm(a.d, b.d) \div b.d),
           Lcm(a.d, b.d))

RNeg(a) == [n |-> -a.n, d |-> a.d]

RSub(a, b) == RAdd(a, RNeg(b))

\* a and b being in lowest terms, the cross factors are cancelled first
RMul(a, b) ==
  IF a.d = 1 /\ b.d = 1 THEN [n |-> a.n * b.n, d |-> 1]
  ELSE IF a.n = 0 \/ b.n = 0 THEN [n |-> 0, d |-> 1]
  ELSE Rat((a.n \div Gcd(Abs(a.n), b.d)) * (b.n \div Gcd(Abs(b.n), a.d)),
           (a.d \div Gcd(Abs(b.n), a.d)) * (b.d \div Gcd(Abs(a.n), b.d)))

RLess(a, b) ==
  IF a.d = b.d THEN a.n < b.n
  ELSE a.n * (Lcm(a.d, b.d) \div a.d) < b.n * (Lcm(a.d, b.d) \div b.d)

RMax(a, b) == IF RLess(a, b) THEN b ELSE a
RMin(a, b) == IF RLess(b, a) THEN b ELSE a

\* a price given in EUR/MWh, in half cents
Eur(e) == 200 * e

\* Number.prototype.toFixed(2) followed by parseFloat: the nearest multiple
\* of one cent (two units), a tie going away from zero
Round2(r) ==
  LET cents == (Abs(r.n) + r.d) \div (2 * r.d)
  IN  IF r.n < 0 THEN -(2 * cents) ELSE 2 * cents

RECURSIVE SumSeq(_)
SumSeq(s) == IF s = <<>> THEN 0 ELSE Head(s) + SumSeq(Tail(s))

\* mean(values) of part_001: 0 for the empty list
mean(values) ==
  IF Len(values) = 0 THEN RInt(0) ELSE Rat(SumSeq(values), Len(values))

(***************************************************************************)
(* Floating-point arithmetic.  The tests `variance === 0`,                 *)
(* `totalVariance === 0` and `values.length === 0 ... / values.length`     *)
(* depend on the rounding of every single operation, so the functions that *)
(* make them are also evaluated in binary floating point: a float is the   *)
(* rational it denotes, every operation returns the exact result rounded   *)
(* to the nearest float, ties to even (IEEE 754 roundTiesToEven).  The     *)
(* significand has MantissaBits bits where a JavaScript number has 53; the *)
(* exponent is not bounded.                                                *)
(***************************************************************************)
RECURSIVE Pow2(_)
Pow2(k) == IF k = 0 THEN 1 ELSE 2 * Pow2(k - 1)

\* the significand a / d rounded to a whole number, a tie going to the even one
RoundTiesToEven(a, d) ==
  IF 2 * (a % d) > d \/ (2 * (a % d) = d /\ (a \div d) % 2 = 1)
  THEN (a \div d) + 1
  ELSE a \div d

RECURSIVE FlPositive(_, _, _)
\* a / d > 0 rounded to MantissaBits significant bits, times scale
FlPositive(a, d, scale) ==
  IF a >= Pow2(MantissaBits) * d THEN FlPositive(a, 2 * d, RMul(scale, RInt(2)))
  ELSE IF a < Pow2(MantissaBits - 1) * d THEN FlPositive(2 * a, d, RMul(scale, Rat(1, 2)))
  ELSE RMul(RInt(RoundTiesToEven(a, d)), scale)

\* the float nearest to the rational r
Fl(r) ==
  IF r.n = 0 THEN RInt(0)
  ELSE IF r.n < 0 THEN RNeg(FlPositive(-r.n, r.d, RInt(1)))
  ELSE FlPositive(r.n, r.d, RInt(1))

FlAdd(a, b) == Fl(RAdd(a, b))
FlSub(a, b) == Fl(RSub(a, b))
FlMul(a, b) == Fl(RMul(a, b))
\* a / b for b # 0
FlDiv(a, b) ==
  Fl(IF b.n < 0 THEN Rat(-(a.n * b.d), a.d * (-b.n)) ELSE Rat(a.n * b.d, a.d * b.n))

RECURSIVE FlSumFrom(_, _)
\* values.reduce((sum, value) => sum + value, acc)
FlSumFrom(acc, values) ==
  IF values = <<>> THEN acc ELSE FlSumFrom(FlAdd(acc, Head(values)), Tail(values))

\* mean(values) of part_001 on floats
FlMean(values) ==
  IF Len(values) = 0 THEN RInt(0)
  ELSE FlDiv(FlSumFrom(RInt(0), values), RInt(Len(values)))

(***************************************************************************)
(* services/mockData: helpers                                              *)
(***************************************************************************)
NaN == <<>>
Undefined == <<>>
Num(v) == <<v>>
IsFinite(x) == Len(x) = 1

\* toHourIso: '' for an unparsable input, else the instant truncated to the
\* top of its UTC hour
toHourIso(dateInput) ==
  IF Len(dateInput) = 0 THEN <<>>
  ELSE <<dateInput[1] - (dateInput[1] % MinutesPerHour)>>

\* Date.prototype.getUTCHours of a valid instant
getUTCHours(t) == (t \div MinutesPerHour) % HoursPerDay

\* Math.max(0, comfortTemp - temperature)
HeatingDemand(temperature) ==
  IF comfortTemp - temperature > 0 THEN comfortTemp - temperature ELSE 0

RECURSIVE PricesAtHour(_, _)
\* grouped[hour] of buildHourlyProfile: the prices of the pairs of that hour
PricesAtHour(pairs, hour) ==
  IF pairs = <<>> THEN <<>>
  ELSE IF getUTCHours(Head(pairs).timestamp) = hour
       THEN <<Head(pairs).price>> \o PricesAtHour(Tail(pairs), hour)
       ELSE PricesAtHour(Tail(pairs), hour)

buildHourlyProfile(pairs) ==
  [hour \in 0..(HoursPerDay - 1) |-> mean(PricesAtHour(pairs, hour))]

estimateTemperatureBeta(pairs) ==
  IF Len(pairs) < 2 THEN RInt(0)
  ELSE
    LET n == Len(pairs)
        demand == [i \in 1..n |-> HeatingDemand(pairs[i].temperature)]
        prices == [i \in 1..n |-> pairs[i].price]
        demandMean == mean(demand)
        priceMean == mean(prices)
        cov[i \in 0..n] ==
          IF i = 0 THEN RInt(0)
          ELSE RAdd(cov[i - 1],
                    RMul(RSub(RInt(demand[i]), demandMean),
                         RSub(RInt(prices[i]), priceMean)))
        var[i \in 0..n] ==
          IF i = 0 THEN RInt(0)
          ELSE RAdd(var[i - 1],
                    RMul(RSub(RInt(demand[i]), demandMean),
                         RSub(RInt(demand[i]), demandMean)))
    IN  IF var[n].n = 0 THEN RInt(0)
        ELSE LET beta == Rat(cov[n].n * var[n].d, cov[n].d * var[n].n)
             IN  RMax(Rat(Eur(BetaLowTenths), 10), RMin(RInt(Eur(BetaHigh)), beta))

\* estimateTemperatureBeta on floats, every operation rounded
estimateTemperatureBetaFl(flPairs) ==
  IF Len(flPairs) < 2 THEN RInt(0)
  ELSE
    LET n == Len(flPairs)
        demand == [i \in 1..n |->
                     RMax(RInt(0), FlSub(RInt(comfortTemp), flPairs[i].temperature))]
        prices == [i \in 1..n |-> flPairs[i].price]
        demandMean == FlMean(demand)
        priceMean == FlMean(prices)
        demandCentered == [i \in 1..n |-> FlSub(demand[i], demandMean)]
        covariance[i \in 0..n] ==
          IF i = 0 THEN RInt(0)
          ELSE FlAdd(covariance[i - 1],
                     FlMul(demandCentered[i], FlSub(prices[i], priceMean)))
        variance[i \in 0..n] ==
          IF i = 0 THEN RInt(0)
          ELSE FlAdd(variance[i - 1], FlMul(demandCentered[i], demandCentered[i]))
    IN  IF variance[n].n = 0 THEN RInt(0)
        ELSE RMax(Rat(BetaLowTenths, 10),
                  RMin(RInt(BetaHigh), FlDiv(covariance[n], variance[n])))

(***************************************************************************)
(* estimateTemperatureBeta called on arbitrary pairs                       *)
(***************************************************************************)
\* temperatures of -14, 7 and 16 degrees with prices of 1, 2 and 3
PairSamples ==
  { [temperature |-> RInt(t), price |-> RInt(p)] : t \in {-14, 7, 16}, p \in {1, 2, 3} }

(***************************************************************************)
(* services/mockData: generatePriceFromWeather                             *)
(***************************************************************************)
\* no call made yet: no output, and no lagHistory or prevPrice in existence
NoOutputs == [x \in {} |-> <<>>]
NoWalk == [globalMean |-> <<>>, steps |-> <<>>]
NoCalls == [count |-> 0, lagHistory |-> [x \in {} |-> <<>>], prevPrice |-> <<>>]

\* the metrics shown before the first computation (modelMetrics: 0, 0, 0)
ZeroMetrics == [mae |-> <<0>>, rmse |-> <<0>>, r2 |-> <<0>>]

\* error === null
Null == <<>>

SpotUnavailable == <<"Spot price API unavailable; showing weather-driven estimates.">>

\* the message of the RangeError that Date.prototype.toISOString raises
InvalidTimeValue == <<"Invalid time value">>

\* modelMetrics of services/mockData
modelMetrics ==
  << [name |-> "Linear Regression", mae |-> Num(0), rmse |-> Num(0), r2 |-> Num(0),
      trainingTime |-> "1.2s"],
     [name |-> "Random Forest", mae |-> Num(0), rmse |-> Num(0), r2 |-> Num(0),
      trainingTime |-> "14.5s"],
     [name |-> "Gradient Boosting", mae |-> Num(0), rmse |-> Num(0), r2 |-> Num(0),
      trainingTime |-> "22.1s"] >>

\* the names on the model buttons
ModelButtons == {"Linear Regression", "Random Forest", "Gradient Boosting"}

\* the state hooks before the component is rendered
Unmounted ==
  [selectedModel |-> "Gradient Boosting", data |-> <<>>, loading |-> TRUE,
   error |-> Null, lastRun |-> <<>>, cvResults |-> <<>>,
   liveModelMetrics |-> modelMetrics]

NoCycle ==
  [finished |-> FALSE, selectedModel |-> "", input |-> <<>>,
   weatherTimeline |-> <<>>, spotTimeline |-> <<>>, processedWeather |-> <<>>,
   threw |-> FALSE]

\* the value a call produces: the returned array, or a raised RangeError
Returned(list) == [threw |-> FALSE, value |-> list]
Threw == [threw |-> TRUE, value |-> <<>>]

RECURSIVE InsertByTime(_, _)
\* x goes behind every element whose time is not later than its own
\* (Array.prototype.sort is stable)
InsertByTime(sorted, x) ==
  IF sorted = <<>> THEN <<x>>
  ELSE IF Head(sorted).time[1] <= x.time[1]
       THEN <<Head(sorted)>> \o InsertByTime(Tail(sorted), x)
       ELSE <<x>> \o sorted

RECURSIVE SortPrefix(_, _)
SortPrefix(ws, k) ==
  IF k = 0 THEN <<>> ELSE InsertByTime(SortPrefix(ws, k - 1), ws[k])

\* variant without the defensive sort: the samples are walked in input order
sortedWeatherOf_InputOrder(ws) == ws

\* [...weatherData].sort(by time), every time being parsable
sortedWeatherOf(ws) == SortPrefix(ws, Len(ws))

RECURSIVE marketPriceMapOf_FirstWins(_, _)
\* variant that keeps the first price of an hour instead of the last
marketPriceMapOf_FirstWins(spot, k) ==
  IF k = 0 THEN [x \in {} |-> 0]
  ELSE
    LET before == marketPriceMapOf_FirstWins(spot, k - 1)
        hourIso == toHourIso(spot[k].timestamp)
    IN  IF Len(hourIso) > 0 /\ IsFinite(spot[k].price) /\ hourIso[1] \notin DOMAIN before
        THEN [x \in (DOMAIN before) \cup {hourIso[1]} |->
                IF x = hourIso[1] THEN spot[k].price[1] ELSE before[x]]
        ELSE before

RECURSIVE marketPriceMapOf(_, _)
\* the Map after the first k entries of spotPrices: hour key -> price
marketPriceMapOf(spot, k) ==
  IF k = 0 THEN [x \in {} |-> 0]
  ELSE
    LET before == marketPriceMapOf(spot, k - 1)
        hourIso == toHourIso(spot[k].timestamp)
    IN  IF Len(hourIso) > 0 /\ IsFinite(spot[k].price)
        THEN [x \in (DOMAIN before) \cup {hourIso[1]} |->
                IF x = hourIso[1] THEN spot[k].price[1] ELSE before[x]]
        ELSE before

RECURSIVE historicalPairsOf(_, _)
historicalPairsOf(sorted, priceMap) ==
  IF sorted = <<>> THEN <<>>
  ELSE
    LET obs == Head(sorted)
        timestamp == toHourIso(obs.time)
        rest == historicalPairsOf(Tail(sorted), priceMap)
    IN  IF ~obs.isForecast /\ Len(timestamp) > 0 /\ timestamp[1] \in DOMAIN priceMap
        THEN <<[timestamp |-> timestamp[1], temperature |-> obs.temperature,
                price |-> priceMap[timestamp[1]]]>> \o rest
        ELSE rest

\* the weight table, in hundredths
modelWeights ==
  [name \in {"Linear Regression", "Random Forest", "Gradient Boosting"} |->
     IF name = "Linear Regression"
     THEN [lag1 |-> 45, lag24 |-> 0, hour |-> 35, mean |-> 20, temp |-> 90]
     ELSE IF name = "Random Forest"
     THEN [lag1 |-> 54, lag24 |-> 6, hour |-> 30, mean |-> 10, temp |-> 105]
     ELSE [lag1 |-> 60, lag24 |-> 5, hour |-> 28, mean |-> 7, temp |-> 115]]

\* names an object literal answers through Object.prototype
ObjectPrototypeKeys ==
  {"constructor", "toString", "valueOf", "hasOwnProperty", "__proto__"}

\* modelWeights[modelType] || modelWeights['Gradient Boosting']: <<w>> for a
\* weight record, <<>> for an inherited member, which is truthy and whose
\* lag1, lag24, hour, mean and temp are all undefined
weightsOf(name) ==
  IF name \in DOMAIN modelWeights THEN <<modelWeights[name]>>
  ELSE IF name \in ObjectPrototypeKeys THEN <<>>
  ELSE <<modelWeights["Gradient Boosting"]>>

\* mean(prices) || 30
globalMeanOf(pairs) ==
  LET m == mean([i \in 1..Len(pairs) |-> pairs[i].price])
  IN  IF m.n = 0 THEN RInt(Eur(30)) ELSE m

avgDemandOf(pairs) ==
  mean([i \in 1..Len(pairs) |-> HeatingDemand(pairs[i].temperature)])

\* what one call derives from its historical pairs before the walk
ContextOfPairs(sorted, priceMap, pairs, name) ==
  [sortedWeather |-> sorted,
   marketPriceMap |-> priceMap,
   historicalPairs |-> pairs,
   globalMean |-> globalMeanOf(pairs),
   hourlyProfile |-> buildHourlyProfile(pairs),
   avgDemand |-> avgDemandOf(pairs),
   tempBeta |-> estimateTemperatureBeta(pairs),
   weights |-> weightsOf(name)]

ContextOfSorted(sorted, priceMap, name) ==
  ContextOfPairs(sorted, priceMap, historicalPairsOf(sorted, priceMap), name)

ContextOf(ws, spot, name) ==
  ContextOfSorted(sortedWeatherOf(ws), marketPriceMapOf(spot, Len(spot)), name)

\* Math.max(-20, Math.min(450, predictedRaw)).toFixed(2), parsed
ClampRound(raw) ==
  Round2(RMax(RInt(Eur(ClampLow)), RMin(RInt(Eur(ClampHigh)), raw)))

\* predictedPrice of one sample: NaN as soon as a factor is undefined or NaN
predictedPriceOf(c, obs, lag1, lag24, hourMean) ==
  IF Len(c.weights) = 0 \/ ~IsFinite(lag1) \/ ~IsFinite(lag24) THEN NaN
  ELSE
    LET w == c.weights[1]
        centeredDemand == RSub(RInt(HeatingDemand(obs.temperature)), c.avgDemand)
        blend ==
          RAdd(RAdd(RMul(RInt(w.lag1), lag1[1]), RMul(RInt(w.lag24), lag24[1])),
               RAdd(RMul(RInt(w.hour), hourMean), RMul(RInt(w.mean), c.globalMean)))
        tempTerm == RMul(RInt(w.temp), RMul(c.tempBeta, centeredDemand))
        predictedRaw == RMul(Rat(1, 100), RAdd(blend, tempTerm))
    IN  Num(ClampRound(predictedRaw))

\* variant that also gives a forecast sample the market price of its hour
actualPriceOf_AlsoForecast(c, obs, timestamp) ==
  IF timestamp \in DOMAIN c.marketPriceMap
  THEN Num(Round2(RInt(c.marketPriceMap[timestamp])))
  ELSE Undefined

\* actualPrice of one sample: the rounded market price of its hour
actualPriceOf(c, obs, timestamp) ==
  IF ~obs.isForecast /\ timestamp \in DOMAIN c.marketPriceMap
  THEN Num(Round2(RInt(c.marketPriceMap[timestamp])))
  ELSE Undefined

\* actualPrice ?? predictedPrice
realizedForLagOf(actualPrice, predictedPrice) ==
  IF Len(actualPrice) > 0 THEN Num(RInt(actualPrice[1]))
  ELSE IF IsFinite(predictedPrice) THEN Num(RInt(predictedPrice[1]))
  ELSE NaN

StepRecord(obs, timestamp, lag1, lag24, hourMean, actualPrice, predictedPrice) ==
  [timestamp |-> timestamp,
   lag1 |-> lag1,
   lag24 |-> lag24,
   hourMean |-> hourMean,
   actualPrice |-> actualPrice,
   predictedPrice |-> predictedPrice,
   realizedForLag |-> realizedForLagOf(actualPrice, predictedPrice),
   temperature |-> obs.temperature,
   isFuture |-> obs.isForecast]

StepAt(c, obs, timestamp, lag1, lag24, hourMean) ==
  StepRecord(obs, timestamp, lag1, lag24, hourMean,
             actualPriceOf(c, obs, timestamp),
             predictedPriceOf(c, obs, lag1, lag24, hourMean))

\* lagHistory.get(prevHour) ?? prevPrice
lag1Of(lagHistory, prevPrice, timestamp) ==
  IF (timestamp - MinutesPerHour) \in DOMAIN lagHistory
  THEN lagHistory[timestamp - MinutesPerHour]
  ELSE prevPrice

\* lagHistory.get(prev24Hour) ?? globalMean
lag24Of(c, lagHistory, timestamp) ==
  IF (timestamp - HoursPerDay * MinutesPerHour) \in DOMAIN lagHistory
  THEN lagHistory[timestamp - HoursPerDay * MinutesPerHour]
  ELSE Num(c.globalMean)

\* variant that reads the profile slot as it is
hourMeanOf_ProfileSlot(c, hour) == c.hourlyProfile[hour]

\* the profile value of the hour when it is finite and positive, else globalMean
hourMeanOf(c, hour) ==
  IF c.hourlyProfile[hour].n > 0 THEN c.hourlyProfile[hour] ELSE c.globalMean

\* the body of the map callback for one sample; lagHistory maps an hour key
\* to a number, prevPrice is a number
StepOf(c, obs, lagHistory, prevPrice) ==
  StepAt(c, obs, toHourIso(obs.time)[1],
         lag1Of(lagHistory, prevPrice, toHourIso(obs.time)[1]),
         lag24Of(c, lagHistory, toHourIso(obs.time)[1]),
         hourMeanOf(c, getUTCHours(toHourIso(obs.time)[1])))

\* variant of the table that keeps the first value recorded for an hour
lagHistorySet_KeepsFirst(lagHistory, step) ==
  IF step.timestamp \in DOMAIN lagHistory THEN lagHistory
  ELSE [x \in (DOMAIN lagHistory) \cup {step.timestamp} |->
          IF x = step.timestamp THEN step.realizedForLag ELSE lagHistory[x]]

\* lagHistory.set(timestamp, realizedForLag)
lagHistorySet(lagHistory, step) ==
  [x \in (DOMAIN lagHistory) \cup {step.timestamp} |->
     IF x = step.timestamp THEN step.realizedForLag ELSE lagHistory[x]]

RECURSIVE WalkOf(_, _, _, _)
\* the step of sample i, then the steps of the samples behind it
WalkFrom(c, i, lagHistory, step) ==
  <<step>> \o WalkOf(c, i + 1, lagHistorySet(lagHistory, step), step.realizedForLag)

\* sortedWeather.map(...): the steps of the samples from index i on
WalkOf(c, i, lagHistory, prevPrice) ==
  IF i > Len(c.sortedWeather) THEN <<>>
  ELSE WalkFrom(c, i, lagHistory, StepOf(c, c.sortedWeather[i], lagHistory, prevPrice))

WalkAll(c) == WalkOf(c, 1, [x \in {} |-> NaN], Num(c.globalMean))

RECURSIVE lagHistoryAfter(_, _)
\* lagHistory once the steps have been recorded in it
lagHistoryAfter(lagHistory, steps) ==
  IF steps = <<>> THEN lagHistory
  ELSE lagHistoryAfter(lagHistorySet(lagHistory, Head(steps)), Tail(steps))

\* the locals lagHistory and prevPrice at the end of a call that returned
LocalsAfter(c, steps) ==
  [lagHistory |-> lagHistoryAfter([x \in {} |-> NaN], steps),
   prevPrice |-> IF steps = <<>> THEN Num(c.globalMean)
                 ELSE steps[Len(steps)].realizedForLag]

\* variant that sorts the caller's array itself
weatherDataAfter_SortedInPlace(ws) ==
  IF \A i \in 1..Len(ws) : Len(ws[i].time) > 0 THEN sortedWeatherOf(ws) ELSE ws

\* the caller's array after the call: [...weatherData] is a copy, and it is
\* the copy that sort reorders
weatherDataAfter(ws) == ws

\* the steps of one call on parsable times
StepsOf(ws, spot, name) == WalkAll(ContextOf(ws, spot, name))

\* the PriceData record a step returns
PriceDataOf(step) ==
  [timestamp |-> step.timestamp,
   actualPrice |-> step.actualPrice,
   predictedPrice |-> step.predictedPrice,
   temperature |-> step.temperature,
   isFuture |-> step.isFuture]

ReturnedSteps(steps) == Returned([i \in 1..Len(steps) |-> PriceDataOf(steps[i])])

\* A sample whose time Date cannot parse keeps its raw string as timestamp
\* and new Date(NaN - 3600000).toISOString() raises RangeError inside the
\* map callback, whatever order the NaN-comparing sort left the array in.
generatePriceFromWeather(ws, spot, name) ==
  IF \E i \in 1..Len(ws) : Len(ws[i].time) = 0 THEN Threw
  ELSE ReturnedSteps(StepsOf(ws, spot, name))

(***************************************************************************)
(* Inputs of the engine                                                    *)
(***************************************************************************)
\* Samples at 00:00, 00:30 and 01:00 of the first day and one whose time
\* string cannot be parsed: two of them at the same instant with different
\* contents, two in the same hour at different instants
WeatherSamples ==
  { [time |-> <<30>>, temperature |-> 5, isForecast |-> FALSE],
    [time |-> <<30>>, temperature |-> 20, isForecast |-> TRUE],
    [time |-> <<0>>, temperature |-> 20, isForecast |-> FALSE],
    [time |-> <<60>>, temperature |-> 5, isForecast |-> FALSE],
    [time |-> <<>>, temperature |-> 5, isForecast |-> FALSE] }

\* 500.035 (which toFixed(2) takes up to 500.04) and -50 EUR/MWh in the hour
\* of 00:00, a price that is not finite in that hour, and an entry whose
\* timestamp cannot be parsed
SpotPoints ==
  { [timestamp |-> <<30>>, price |-> Num(100007)],
    [timestamp |-> <<0>>, price |-> Num(Eur(-50))],
    [timestamp |-> <<0>>, price |-> NaN],
    [timestamp |-> <<>>, price |-> Num(Eur(-50))] }

ModelNames ==
  {"Linear Regression", "Random Forest", "Gradient Boosting",
   "Ridge", "constructor"}

SeqsUpTo(S, n) == UNION {[1..k -> S] : k \in 0..n}

(***************************************************************************)
(* The engine called on arbitrary inputs                                   *)
(***************************************************************************)
InitGen ==
  /\ weatherData \in SeqsUpTo(WeatherSamples, MaxWeather)
  /\ spotPrices \in SeqsUpTo(SpotPoints, MaxPrices)
  /\ modelType \in ModelNames
  /\ pc = "ready"
  /\ series = Returned(<<>>)
  /\ otherWeather = <<>>
  /\ otherModel = modelType
  /\ otherSeries = Returned(<<>>)
  /\ cvData = <<>>
  /\ cvResults = <<>>
  /\ cvMetrics = ZeroMetrics
  /\ cvFolds = <<>>
  /\ fetched = [weather |-> weatherData, spot |-> spotPrices]
  /\ perModel = NoOutputs
  /\ callState = NoCalls
  /\ walk = NoWalk
  /\ pairsArg = <<>>
  /\ betaOut = RInt(0)
  /\ dashboard = Unmounted
  /\ inFlight = <<>>
  /\ lastCycle = NoCycle
  /\ mounted = FALSE
  /\ refreshInterval = Null
  /\ timers = {}

\* generatePriceFromWeather(weatherData, spotPrices, modelType)
Generate ==
  /\ pc = "ready"
  /\ series' = generatePriceFromWeather(weatherData, spotPrices, modelType)
  /\ pc' = "generated"
  /\ UNCHANGED <<weatherData, spotPrices, modelType, otherWeather, otherModel,
                 otherSeries, cvVars, callVars, betaVars, walkVars, dashVars>>

\* a second call, on the same samples in another order
GenerateShuffled ==
  /\ pc = "generated"
  /\ \E p \in Permutations(1..Len(weatherData)) :
       /\ otherWeather' = [i \in 1..Len(weatherData) |-> weatherData[p[i]]]
       /\ otherSeries' = generatePriceFromWeather(otherWeather', spotPrices, modelType)
  /\ otherModel' = modelType
  /\ pc' = "shuffled"
  /\ UNCHANGED <<weatherData, spotPrices, modelType, series, cvVars, callVars, betaVars, walkVars, dashVars>>

\* a second call, on the same arrays under the name of the default model
GenerateGradientBoosting ==
  /\ pc = "generated"
  /\ otherModel' = "Gradient Boosting"
  /\ otherSeries' = generatePriceFromWeather(weatherData, spotPrices, otherModel')
  /\ otherWeather' = weatherData
  /\ pc' = "remodelled"
  /\ UNCHANGED <<weatherData, spotPrices, modelType, series, cvVars, callVars, betaVars, walkVars, dashVars>>

NextGen == Generate \/ GenerateShuffled \/ GenerateGradientBoosting

SpecGen == InitGen /\ [][NextGen]_vars

InitBeta ==
  /\ weatherData = <<>>
  /\ spotPrices = <<>>
  /\ modelType = "Gradient Boosting"
  /\ pc = "estimating"
  /\ series = Returned(<<>>)
  /\ otherWeather = <<>>
  /\ otherModel = modelType
  /\ otherSeries = Returned(<<>>)
  /\ cvData = <<>>
  /\ cvResults = <<>>
  /\ cvMetrics = ZeroMetrics
  /\ cvFolds = <<>>
  /\ fetched = [weather |-> weatherData, spot |-> spotPrices]
  /\ perModel = NoOutputs
  /\ callState = NoCalls
  /\ walk = NoWalk
  /\ pairsArg \in SeqsUpTo(PairSamples, MaxPairs)
  /\ betaOut = RInt(0)
  /\ dashboard = Unmounted
  /\ inFlight = <<>>
  /\ lastCycle = NoCycle
  /\ mounted = FALSE
  /\ refreshInterval = Null
  /\ timers = {}

\* estimateTemperatureBeta(pairsArg, comfortTemp)
EstimateBeta ==
  /\ pc = "estimating"
  /\ betaOut' = estimateTemperatureBetaFl(pairsArg)
  /\ pc' = "estimated"
  /\ UNCHANGED <<engineVars, cvVars, callVars, pairsArg, walkVars, dashVars>>

NextBeta == EstimateBeta

SpecBeta == InitBeta /\ [][NextBeta]_vars

(***************************************************************************)
(* One pass of the engine over timelines that span a day                   *)
(***************************************************************************)
\* samples at 00:00, 00:30 and 01:00 of the first day and at 00:00 and 02:00
\* of the second; the one at 00:30 and the last one are forecasts
TimelineSamples ==
  { [time |-> <<0>>, temperature |-> 5, isForecast |-> FALSE],
    [time |-> <<30>>, temperature |-> 20, isForecast |-> TRUE],
    [time |-> <<60>>, temperature |-> 5, isForecast |-> FALSE],
    [time |-> <<1440>>, temperature |-> 20, isForecast |-> FALSE],
    [time |-> <<1560>>, temperature |-> 5, isForecast |-> TRUE] }

\* no market price; 0.00 at 00:00; 40 at 00:00, -40 at 01:00 and 80 on the
\* next day at 00:00
TimelineSpot ==
  { << >>,
    << [timestamp |-> <<0>>, price |-> Num(Eur(0))] >>,
    << [timestamp |-> <<0>>, price |-> Num(Eur(40))],
       [timestamp |-> <<60>>, price |-> Num(Eur(-40))],
       [timestamp |-> <<1440>>, price |-> Num(Eur(80))] >> }

InitWalk ==
  /\ weatherData \in SeqsUpTo(TimelineSamples, MaxSamples)
  /\ spotPrices \in TimelineSpot
  /\ modelType \in {"Linear Regression", "Gradient Boosting"}
  /\ pc = "ready"
  /\ series = Returned(<<>>)
  /\ otherWeather = <<>>
  /\ otherModel = modelType
  /\ otherSeries = Returned(<<>>)
  /\ cvData = <<>>
  /\ cvResults = <<>>
  /\ cvMetrics = ZeroMetrics
  /\ cvFolds = <<>>
  /\ fetched = [weather |-> weatherData, spot |-> spotPrices]
  /\ perModel = NoOutputs
  /\ callState = NoCalls
  /\ walk = NoWalk
  /\ pairsArg = <<>>
  /\ betaOut = RInt(0)
  /\ dashboard = Unmounted
  /\ inFlight = <<>>
  /\ lastCycle = NoCycle
  /\ mounted = FALSE
  /\ refreshInterval = Null
  /\ timers = {}

\* generatePriceFromWeather(weatherData, spotPrices, modelType), with the
\* locals of the call kept for inspection
GenerateWalk ==
  /\ pc = "ready"
  /\ series' = generatePriceFromWeather(weatherData, spotPrices, modelType)
  /\ walk' = [globalMean |-> Num(ContextOf(weatherData, spotPrices, modelType).globalMean),
              steps |-> StepsOf(weatherData, spotPrices, modelType)]
  /\ pc' = "walked"
  /\ UNCHANGED <<weatherData, spotPrices, modelType, otherWeather, otherModel,
                 otherSeries, cvVars, callVars, betaVars, dashVars>>

NextWalk == GenerateWalk

SpecWalk == InitWalk /\ [][NextWalk]_vars

(***************************************************************************)
(* The engine called again and again on the same arrays                    *)
(***************************************************************************)
\* what a refresh cycle hands to its calls: an unsorted timeline, a sorted
\* one, an empty one and one with a time that cannot be parsed
FetchedWeather ==
  { << [time |-> <<60>>, temperature |-> 5, isForecast |-> TRUE],
       [time |-> <<30>>, temperature |-> 20, isForecast |-> FALSE],
       [time |-> <<0>>, temperature |-> 5, isForecast |-> FALSE] >>,
    << [time |-> <<0>>, temperature |-> 5, isForecast |-> FALSE],
       [time |-> <<60>>, temperature |-> 20, isForecast |-> FALSE],
       [time |-> <<120>>, temperature |-> 5, isForecast |-> TRUE] >>,
    << >>,
    << [time |-> <<60>>, temperature |-> 5, isForecast |-> FALSE],
       [time |-> <<>>, temperature |-> 5, isForecast |-> FALSE] >> }

FetchedSpot ==
  { << >>,
    << [timestamp |-> <<60>>, price |-> Num(Eur(40))],
       [timestamp |-> <<0>>, price |-> Num(Eur(-50))] >>,
    << [timestamp |-> <<0>>, price |-> Num(100007)] >> }

InitCalls ==
  /\ weatherData \in FetchedWeather
  /\ spotPrices \in FetchedSpot
  /\ modelType = "Gradient Boosting"
  /\ pc = "fetched"
  /\ series = Returned(<<>>)
  /\ otherWeather = <<>>
  /\ otherModel = modelType
  /\ otherSeries = Returned(<<>>)
  /\ cvData = <<>>
  /\ cvResults = <<>>
  /\ cvMetrics = ZeroMetrics
  /\ cvFolds = <<>>
  /\ fetched = [weather |-> weatherData, spot |-> spotPrices]
  /\ perModel = NoOutputs
  /\ callState = NoCalls
  /\ walk = NoWalk
  /\ pairsArg = <<>>
  /\ betaOut = RInt(0)
  /\ dashboard = Unmounted
  /\ inFlight = <<>>
  /\ lastCycle = NoCycle
  /\ mounted = FALSE
  /\ refreshInterval = Null
  /\ timers = {}

\* lagHistory and prevPrice of the call that has just ended; a call that
\* raised leaves none
callStateAfter(ws, spot, name, result) ==
  IF result.threw
  THEN [count |-> callState.count + 1, lagHistory |-> NoCalls.lagHistory,
        prevPrice |-> NoCalls.prevPrice]
  ELSE [count |-> callState.count + 1,
        lagHistory |-> LocalsAfter(ContextOf(ws, spot, name), StepsOf(ws, spot, name)).lagHistory,
        prevPrice |-> LocalsAfter(ContextOf(ws, spot, name), StepsOf(ws, spot, name)).prevPrice]

\* generatePriceFromWeather(weatherData, spotPrices, name), one of the calls
\* the dashboard makes per model on the arrays of a cycle
CallModel(name) ==
  /\ pc = "fetched"
  /\ callState.count < MaxCalls
  /\ modelType' = name
  /\ series' = generatePriceFromWeather(weatherData, spotPrices, name)
  /\ weatherData' = weatherDataAfter(weatherData)
  /\ callState' = callStateAfter(weatherData, spotPrices, name, series')
  /\ perModel' = IF name \in DOMAIN perModel THEN perModel
                 ELSE [x \in (DOMAIN perModel) \cup {name} |->
                         IF x = name THEN series' ELSE perModel[x]]
  /\ UNCHANGED <<pc, spotPrices, otherWeather, otherModel, otherSeries, cvVars, fetched, betaVars, walkVars, dashVars>>

NextCalls == \E name \in DOMAIN modelWeights : CallModel(name)

SpecCalls == InitCalls /\ [][NextCalls]_vars

(***************************************************************************)
(* services/mlUtils: computeFoldMetrics, performTimeSeriesCV               *)
(***************************************************************************)
RECURSIVE FilterValid(_)
\* slice.filter(point => point.actualPrice !== undefined)
FilterValid(slice) ==
  IF slice = <<>> THEN <<>>
  ELSE IF Len(Head(slice).actualPrice) > 0
       THEN <<Head(slice)>> \o FilterValid(Tail(slice))
       ELSE FilterValid(Tail(slice))

RECURSIVE FilterHistorical_KeepsFuture(_)
\* variant of the filter that lets a future point with an actualPrice through
FilterHistorical_KeepsFuture(data) ==
  IF data = <<>> THEN <<>>
  ELSE IF Len(Head(data).actualPrice) > 0
       THEN <<Head(data)>> \o FilterHistorical_KeepsFuture(Tail(data))
       ELSE FilterHistorical_KeepsFuture(Tail(data))

RECURSIVE FilterHistorical(_)
\* data.filter(point => point.actualPrice !== undefined && !point.isFuture)
FilterHistorical(data) ==
  IF data = <<>> THEN <<>>
  ELSE IF Len(Head(data).actualPrice) > 0 /\ ~Head(data).isFuture
       THEN <<Head(data)>> \o FilterHistorical(Tail(data))
       ELSE FilterHistorical(Tail(data))

RECURSIVE NearestCentsFrom(_, _, _)
\* sqrt(se / n) half cents, as the nearest whole number of cents: the first
\* c, from c upwards, with sqrt(se / n) / 2 < c + 1/2
NearestCentsFrom(se, n, c) ==
  IF se < (2 * c + 1) * (2 * c + 1) * n THEN c ELSE NearestCentsFrom(se, n, c + 1)

\* Math.sqrt(squaredError / length).toFixed(2), parsed: squaredError is in
\* squared half cents, the result in half cents
RoundedRmse(squaredError, length) == 2 * NearestCentsFrom(squaredError, length, 0)

\* the sums of the loop of computeFoldMetrics over the valid points
ErrorSums(valid) ==
  LET n == Len(valid)
      error(i) == valid[i].predictedPrice[1] - valid[i].actualPrice[1]
      sumActual == SumSeq([i \in 1..n |-> valid[i].actualPrice[1]])
      centeredTimesN(i) == n * valid[i].actualPrice[1] - sumActual
  IN  [absoluteError |-> SumSeq([i \in 1..n |-> Abs(error(i))]),
       squaredError |-> SumSeq([i \in 1..n |-> error(i) * error(i)]),
       totalVariance |->
         Rat(SumSeq([i \in 1..n |-> centeredTimesN(i) * centeredTimesN(i)]), n * n)]

MetricsOfSums(sums, length) ==
  [mae |-> Num(Rat(sums.absoluteError, length)),
   rmse |-> Num(RoundedRmse(sums.squaredError, length)),
   r2 |-> IF sums.totalVariance.n = 0 THEN Num(RInt(0))
          ELSE Num(RSub(RInt(1),
                        RMul(RInt(sums.squaredError),
                             [n |-> sums.totalVariance.d, d |-> sums.totalVariance.n])))]

\* mae and r2 as exact numbers, rmse already rounded to two decimals (the
\* callers round all three); NaN when a prediction of the slice is NaN
MetricsOfValid(valid) ==
  IF Len(valid) = 0
  THEN [mae |-> Num(RInt(0)), rmse |-> Num(0), r2 |-> Num(RInt(0))]
  ELSE IF \E i \in 1..Len(valid) : ~IsFinite(valid[i].predictedPrice)
  THEN [mae |-> NaN, rmse |-> NaN,
        r2 |-> IF \A i \in 1..Len(valid) : valid[i].actualPrice = valid[1].actualPrice
               THEN Num(RInt(0)) ELSE NaN]
  ELSE MetricsOfSums(ErrorSums(valid), Len(valid))

computeFoldMetrics(slice) == MetricsOfValid(FilterValid(slice))

\* Array.prototype.slice(from, to) on zero-based, half-open bounds
Slice(list, from, to) ==
  IF to <= from THEN <<>> ELSE [k \in 1..(to - from) |-> list[from + k]]

Min(a, b) == IF a < b THEN a ELSE b

\* variant whose last fold runs to the end of the list
FoldOf_LastAbsorbs(historical, foldSize, i) ==
  [trainEnd |-> i * foldSize,
   testEnd |-> IF i = folds THEN Len(historical) ELSE (i + 1) * foldSize,
   testSlice |-> Slice(historical, i * foldSize,
                       IF i = folds THEN Len(historical) ELSE (i + 1) * foldSize)]

\* variant whose test slice starts on the last training point
FoldOf_OverlapsTraining(historical, foldSize, i) ==
  [trainEnd |-> i * foldSize,
   testEnd |-> Min(Len(historical), (i + 1) * foldSize),
   testSlice |-> Slice(historical, i * foldSize - 1,
                       Min(Len(historical), (i + 1) * foldSize))]

\* the boundaries and the test slice of fold i
FoldOf(historical, foldSize, i) ==
  [trainEnd |-> i * foldSize,
   testEnd |-> Min(Len(historical), (i + 1) * foldSize),
   testSlice |-> Slice(historical, i * foldSize,
                       Min(Len(historical), (i + 1) * foldSize))]

\* variant that also refuses a list of exactly MinHistorical points
FoldsOfHistorical_Refuses12(historical) ==
  IF Len(historical) <= MinHistorical THEN <<>>
  ELSE IF Len(historical) \div (folds + 1) < MinFoldSize THEN <<>>
  ELSE [i \in 1..folds |-> FoldOf(historical, Len(historical) \div (folds + 1), i)]

\* the folds the loop of performTimeSeriesCV goes through
FoldsOfHistorical(historical) ==
  IF Len(historical) < MinHistorical THEN <<>>
  ELSE IF Len(historical) \div (folds + 1) < MinFoldSize THEN <<>>
  ELSE [i \in 1..folds |-> FoldOf(historical, Len(historical) \div (folds + 1), i)]

FoldsOf(data) == FoldsOfHistorical(FilterHistorical(data))

RoundNum(x) == IF IsFinite(x) THEN Num(Round2(x[1])) ELSE NaN

\* the CrossValidationResult pushed for fold i
ResultOfFold(i, fold, metrics) ==
  [fold |-> i,
   trainSize |-> fold.trainEnd,
   testSize |-> Len(fold.testSlice),
   mae |-> RoundNum(metrics.mae),
   rmse |-> metrics.rmse]

ResultsOfFolds(foldList) ==
  [i \in 1..Len(foldList) |->
     ResultOfFold(i, foldList[i], computeFoldMetrics(foldList[i].testSlice))]

performTimeSeriesCV(data) == ResultsOfFolds(FoldsOf(data))

\* parseFloat(metrics.r2.toFixed(2)): r2 in two-hundredths, as the prices
RoundR2(x) == IF IsFinite(x) THEN Num(Round2(RMul(RInt(Eur(1)), x[1]))) ELSE NaN

\* the rounded triple made of the metrics of the historical points
AggregateOf(metrics) ==
  [mae |-> RoundNum(metrics.mae), rmse |-> metrics.rmse, r2 |-> RoundR2(metrics.r2)]

computeAggregateMetrics(data) == AggregateOf(computeFoldMetrics(FilterHistorical(data)))

(***************************************************************************)
(* services/mlUtils on floats, every operation rounded                     *)
(***************************************************************************)
RECURSIVE FlSqrtPositive(_, _)
\* Math.sqrt of a value x > 0: the float nearest to its square root, found
\* among the floats m * scale with a full significand m
FlSqrtPositive(x, scale) ==
  LET low == RMul(RInt(Pow2(MantissaBits - 1)), scale)
      high == RMul(RInt(Pow2(MantissaBits)), scale)
  IN  IF ~RLess(x, RMul(high, high)) THEN FlSqrtPositive(x, RMul(scale, RInt(2)))
      ELSE IF RLess(x, RMul(low, low)) THEN FlSqrtPositive(x, RMul(scale, Rat(1, 2)))
      ELSE
        LET m == CHOOSE k \in Pow2(MantissaBits - 1)..(Pow2(MantissaBits) - 1) :
                   /\ ~RLess(x, RMul(RMul(RInt(k), scale), RMul(RInt(k), scale)))
                   /\ RLess(x, RMul(RMul(RInt(k + 1), scale), RMul(RInt(k + 1), scale)))
            half == RMul(Rat(2 * m + 1, 2), scale)
        IN  IF RLess(RMul(half, half), x) THEN RMul(RInt(m + 1), scale)
            ELSE RMul(RInt(m), scale)

FlSqrt(x) == IF x.n = 0 THEN RInt(0) ELSE FlSqrtPositive(x, RInt(1))

FlAbs(x) == IF x.n < 0 THEN RNeg(x) ELSE x

\* computeFoldMetrics on points whose prices are floats
computeFoldMetricsFl(slice) ==
  LET valid == FilterValid(slice)
      n == Len(valid)
      actuals == [i \in 1..n |-> valid[i].actualPrice[1]]
      predictions == [i \in 1..n |-> valid[i].predictedPrice[1]]
      meanActual == FlDiv(FlSumFrom(RInt(0), actuals), RInt(n))
      error == [i \in 1..n |-> FlSub(predictions[i], actuals[i])]
      centered == [i \in 1..n |-> FlSub(actuals[i], meanActual)]
      absoluteError[i \in 0..n] ==
        IF i = 0 THEN RInt(0) ELSE FlAdd(absoluteError[i - 1], FlAbs(error[i]))
      squaredError[i \in 0..n] ==
        IF i = 0 THEN RInt(0) ELSE FlAdd(squaredError[i - 1], FlMul(error[i], error[i]))
      totalVariance[i \in 0..n] ==
        IF i = 0 THEN RInt(0)
        ELSE FlAdd(totalVariance[i - 1], FlMul(centered[i], centered[i]))
  IN  IF n = 0 THEN [mae |-> RInt(0), rmse |-> RInt(0), r2 |-> RInt(0)]
      ELSE [mae |-> FlDiv(absoluteError[n], RInt(n)),
            rmse |-> FlSqrt(FlDiv(squaredError[n], RInt(n))),
            r2 |-> IF totalVariance[n].n = 0 THEN RInt(0)
                   ELSE FlSub(RInt(1), FlDiv(squaredError[n], totalVariance[n]))]

\* parseFloat(x.toFixed(2)) of a float, in two-hundredths
ToFixed2(x) == Num(Round2(RMul(RInt(Eur(1)), x)))

\* computeAggregateMetrics on points whose prices are floats
computeAggregateMetricsFl(data) ==
  LET metrics == computeFoldMetricsFl(FilterHistorical(data))
  IN  [mae |-> ToFixed2(metrics.mae),
       rmse |-> ToFixed2(metrics.rmse),
       r2 |-> ToFixed2(metrics.r2)]

(***************************************************************************)
(* The cross-validation called on arbitrary series                         *)
(***************************************************************************)
\* the point appended at position k (one per hour): a scored historical
\* point, or one of the points the filter has to drop
PointOf(kind, k) ==
  [timestamp |-> k * MinutesPerHour,
   actualPrice |-> IF kind \in {"scored", "futureScored"}
                   THEN Num(Eur(30) + 20 * (k % 3)) ELSE Undefined,
   predictedPrice |-> Num(Eur(30) + 20 * (k % 3) + 4 * (k % 4) - 6),
   temperature |-> 5,
   isFuture |-> kind \in {"future", "futureScored"}]

PointKinds == {"scored", "unscored", "future", "futureScored"}

OddCount(data) ==
  Cardinality({k \in 1..Len(data) : Len(data[k].actualPrice) = 0 \/ data[k].isFuture})

InitCV ==
  /\ weatherData = <<>>
  /\ spotPrices = <<>>
  /\ modelType = "Gradient Boosting"
  /\ series = Returned(<<>>)
  /\ otherWeather = <<>>
  /\ otherModel = "Gradient Boosting"
  /\ otherSeries = Returned(<<>>)
  /\ pc = "collecting"
  /\ cvData = <<>>
  /\ cvResults = <<>>
  /\ cvMetrics = ZeroMetrics
  /\ cvFolds = <<>>
  /\ fetched = [weather |-> weatherData, spot |-> spotPrices]
  /\ perModel = NoOutputs
  /\ callState = NoCalls
  /\ walk = NoWalk
  /\ pairsArg = <<>>
  /\ betaOut = RInt(0)
  /\ dashboard = Unmounted
  /\ inFlight = <<>>
  /\ lastCycle = NoCycle
  /\ mounted = FALSE
  /\ refreshInterval = Null
  /\ timers = {}

\* the caller's series grows by one point
AppendPoint ==
  /\ pc = "collecting"
  /\ Len(cvData) < MaxPoints
  /\ \E kind \in PointKinds :
       /\ kind # "scored" => OddCount(cvData) < MaxOdd
       /\ cvData' = Append(cvData, PointOf(kind, Len(cvData)))
  /\ UNCHANGED <<pc, engineVars, cvResults, cvMetrics, cvFolds, callVars, betaVars, walkVars, dashVars>>

\* performTimeSeriesCV(cvData) and computeAggregateMetrics(cvData), as the
\* dashboard calls them on one series
RunCV ==
  /\ pc = "collecting"
  /\ cvFolds' = FoldsOf(cvData)
  /\ cvResults' = performTimeSeriesCV(cvData)
  /\ cvMetrics' = computeAggregateMetrics(cvData)
  /\ pc' = "validated"
  /\ UNCHANGED <<engineVars, cvData, callVars, betaVars, walkVars, dashVars>>

NextCV == AppendPoint \/ RunCV

SpecCV == InitCV /\ [][NextCV]_vars

(***************************************************************************)
(* The aggregate metrics called on arbitrary scored series                 *)
(***************************************************************************)
\* historical points with an actualPrice of 7 or 8 and a prediction that
\* is exact or 1 too high
ScoredPoints ==
  { [timestamp |-> 0, actualPrice |-> Num(RInt(a)), predictedPrice |-> Num(RInt(a + e)),
     temperature |-> 5, isFuture |-> FALSE] : a \in {7, 8}, e \in {0, 1} }

InitAgg ==
  /\ weatherData = <<>>
  /\ spotPrices = <<>>
  /\ modelType = "Gradient Boosting"
  /\ series = Returned(<<>>)
  /\ otherWeather = <<>>
  /\ otherModel = "Gradient Boosting"
  /\ otherSeries = Returned(<<>>)
  /\ pc = "measuring"
  /\ cvData \in SeqsUpTo(ScoredPoints, MaxScored)
  /\ cvResults = <<>>
  /\ cvMetrics = ZeroMetrics
  /\ cvFolds = <<>>
  /\ fetched = [weather |-> weatherData, spot |-> spotPrices]
  /\ perModel = NoOutputs
  /\ callState = NoCalls
  /\ walk = NoWalk
  /\ pairsArg = <<>>
  /\ betaOut = RInt(0)
  /\ dashboard = Unmounted
  /\ inFlight = <<>>
  /\ lastCycle = NoCycle
  /\ mounted = FALSE
  /\ refreshInterval = Null
  /\ timers = {}

\* computeAggregateMetrics(cvData)
ComputeAggregate ==
  /\ pc = "measuring"
  /\ cvMetrics' = computeAggregateMetricsFl(cvData)
  /\ pc' = "measured"
  /\ UNCHANGED <<engineVars, cvData, cvResults, cvFolds, callVars, betaVars, walkVars, dashVars>>

NextAgg == ComputeAggregate

SpecAgg == InitAgg /\ [][NextAgg]_vars

(***************************************************************************)
(* The Dashboard component (components/Dashboard).  refreshData is an      *)
(* async function: its part before the await runs when it is called, its   *)
(* part after the await runs as one step when both fetches have settled.   *)
(* The two fetchers catch every failure and resolve to an empty list.      *)
(* The metrics of a cycle are evaluated in exact arithmetic.               *)
(***************************************************************************)
\* Date.now() when a cycle resumes: 00:30 of the third day
NowSamples == {2910}

\* the draws of Math.random() of one cycle as whole degrees above 2: all
\* 0, or a ramp over 0..7
RandomDraws ==
  { [i \in 1..SyntheticLength |-> 0],
    [i \in 1..SyntheticLength |-> (3 * i) % 8] }

\* Array.from({ length: 48 }).map((_, i) => ...): i runs from 0
SyntheticWeather(now, random) ==
  [k \in 1..SyntheticLength |->
     [time |-> <<now - (SyntheticPast - (k - 1)) * MinutesPerHour>>,
      temperature |-> 2 + random[k],
      isForecast |-> (k - 1) >= SyntheticPast]]

\* a weather feed that answered: two observations and one forecast
LiveWeather(now) ==
  << [time |-> <<now - 130>>, temperature |-> -3, isForecast |-> FALSE],
     [time |-> <<now - 70>>, temperature |-> 1, isForecast |-> FALSE],
     [time |-> <<now + 50>>, temperature |-> 0, isForecast |-> TRUE] >>

\* a weather feed with an element whose time text is not a date
BrokenWeather(now) ==
  << [time |-> <<>>, temperature |-> 1, isForecast |-> FALSE] >>

\* a price feed that answered: the 24 hours before the current one, sorted,
\* with prices of 30.00, 30.01 and 30.02
LiveSpot(now) ==
  [k \in 1..HoursPerDay |->
     [timestamp |-> <<toHourIso(<<now>>)[1] - (HoursPerDay + 1 - k) * MinutesPerHour>>,
      price |-> Num(Eur(30) + 2 * (k % 3)),
      isFuture |-> FALSE]]

\* what the two fetches of a cycle can resolve to, with the clock and the
\* random draws the cycle reads (none when the weather list is not empty)
RefreshInputs ==
  { [now |-> now, weatherTimeline |-> 0, spotTimeline |-> sp, random |-> random] :
      now \in NowSamples, sp \in {0, 1}, random \in RandomDraws }
  \cup
  { [now |-> now, weatherTimeline |-> w, spotTimeline |-> sp, random |-> <<>>] :
      now \in NowSamples, w \in {1, 2}, sp \in {0, 1} }

weatherTimelineOf(in) ==
  IF in.weatherTimeline = 0 THEN <<>>
  ELSE IF in.weatherTimeline = 1 THEN LiveWeather(in.now)
  ELSE BrokenWeather(in.now)

spotTimelineOf(in) == IF in.spotTimeline = 0 THEN <<>> ELSE LiveSpot(in.now)

\* processedWeather
processedWeatherOf(in) ==
  IF Len(weatherTimelineOf(in)) = 0 THEN SyntheticWeather(in.now, in.random)
  ELSE weatherTimelineOf(in)

\* the body of the modelMetrics.map callback
perModelEntry(processedWeather, spotTimeline, modelTemplate) ==
  LET modelData == generatePriceFromWeather(processedWeather, spotTimeline,
                                            modelTemplate.name)
  IN  [name |-> modelTemplate.name,
       trainingTime |-> modelTemplate.trainingTime,
       threw |-> modelData.threw,
       data |-> modelData.value,
       cv |-> IF modelData.threw THEN <<>> ELSE performTimeSeriesCV(modelData.value),
       metrics |-> IF modelData.threw THEN ZeroMetrics
                   ELSE computeAggregateMetrics(modelData.value)]

perModelOf(processedWeather, spotTimeline) ==
  [k \in 1..Len(modelMetrics) |->
     perModelEntry(processedWeather, spotTimeline, modelMetrics[k])]

\* perModel of every cycle input
PerModelTable ==
  [in \in RefreshInputs |-> perModelOf(processedWeatherOf(in), spotTimelineOf(in))]

\* perModel.find(entry => entry.name === selectedModel) || perModel[perModel.length - 1]
activeModelOf_Last(entries, name) == entries[Len(entries)]

activeModelOf(entries, name) ==
  IF \E k \in 1..Len(entries) : entries[k].name = name
  THEN entries[CHOOSE k \in 1..Len(entries) :
                 /\ entries[k].name = name
                 /\ \A j \in 1..(k - 1) : entries[j].name # name]
  ELSE entries[Len(entries)]

liveModelMetricsOf(entries) ==
  [k \in 1..Len(entries) |->
     [name |-> entries[k].name,
      trainingTime |-> entries[k].trainingTime,
      mae |-> entries[k].metrics.mae,
      rmse |-> entries[k].metrics.rmse,
      r2 |-> entries[k].metrics.r2,
      cvResults |-> entries[k].cv]]

\* the time of day toLocaleTimeString prints, in minutes, in a UTC locale
lastRunOf(now) == <<now % (HoursPerDay * MinutesPerHour)>>

\* variant without the finally block: an exception leaves loading as it is
dashboardAfter_NoFinally(in, name) ==
  IF PerModelTable[in][1].threw
  THEN [dashboard EXCEPT !.error = InvalidTimeValue]
  ELSE [dashboard EXCEPT
          !.data = activeModelOf(PerModelTable[in], name).data,
          !.cvResults = activeModelOf(PerModelTable[in], name).cv,
          !.liveModelMetrics = liveModelMetricsOf(PerModelTable[in]),
          !.lastRun = lastRunOf(in.now),
          !.error = IF Len(spotTimelineOf(in)) = 0 THEN SpotUnavailable ELSE Null,
          !.loading = FALSE]

\* the state hooks after the part of refreshData behind the await, run by a
\* closure that captured selectedModel = name
dashboardAfter(in, name) ==
  IF PerModelTable[in][1].threw
  THEN [dashboard EXCEPT !.error = InvalidTimeValue, !.loading = FALSE]
  ELSE [dashboard EXCEPT
          !.data = activeModelOf(PerModelTable[in], name).data,
          !.cvResults = activeModelOf(PerModelTable[in], name).cv,
          !.liveModelMetrics = liveModelMetricsOf(PerModelTable[in]),
          !.lastRun = lastRunOf(in.now),
          !.error = IF Len(spotTimelineOf(in)) = 0 THEN SpotUnavailable ELSE Null,
          !.loading = FALSE]

lastCycleOf(in, name) ==
  [finished |-> TRUE, selectedModel |-> name, input |-> in,
   weatherTimeline |-> weatherTimelineOf(in),
   spotTimeline |-> spotTimelineOf(in),
   processedWeather |-> processedWeatherOf(in),
   threw |-> PerModelTable[in][1].threw]

\* the sequence without its element i
RemoveAt(s, i) == [k \in 1..(Len(s) - 1) |-> IF k < i THEN s[k] ELSE s[k + 1]]

\* the first render and its effects: refreshData() is called and the
\* interval is armed
InitDash ==
  /\ weatherData = <<>>
  /\ spotPrices = <<>>
  /\ modelType = "Gradient Boosting"
  /\ series = Returned(<<>>)
  /\ otherWeather = <<>>
  /\ otherModel = "Gradient Boosting"
  /\ otherSeries = Returned(<<>>)
  /\ pc = "mounted"
  /\ cvData = <<>>
  /\ cvResults = <<>>
  /\ cvMetrics = ZeroMetrics
  /\ cvFolds = <<>>
  /\ fetched = [weather |-> weatherData, spot |-> spotPrices]
  /\ perModel = NoOutputs
  /\ callState = NoCalls
  /\ walk = NoWalk
  /\ pairsArg = <<>>
  /\ betaOut = RInt(0)
  /\ dashboard = Unmounted
  /\ inFlight = <<[selectedModel |-> Unmounted.selectedModel]>>
  /\ lastCycle = NoCycle
  /\ mounted = TRUE
  /\ refreshInterval = <<1>>
  /\ timers = {[id |-> 1, selectedModel |-> Unmounted.selectedModel]}

\* the handle window.setInterval returns: a positive number that identifies
\* no armed interval (the smallest one)
NewIntervalId(armed) ==
  CHOOSE n \in 1..(Cardinality(armed) + 1) :
    /\ \A t \in armed : t.id # n
    /\ \A k \in 1..(n - 1) : \E t \in armed : t.id = k

\* variant of the cleanup that leaves the interval armed
clearIntervalOf_Keeps(armed, ref) == armed

\* if (refreshInterval.current) clearInterval(refreshInterval.current)
clearIntervalOf(armed, ref) ==
  IF ref = Null THEN armed ELSE {t \in armed : t.id # ref[1]}

\* window.setInterval(refreshData, 60000) by the render whose refreshData
\* captured selectedModel = name
setIntervalOf(armed, name) ==
  armed \cup {[id |-> NewIntervalId(armed), selectedModel |-> name]}

\* refreshData up to its await, called through a closure that captured
\* selectedModel = name; a state setter of an unmounted component does nothing
refreshDataStart(name) ==
  /\ dashboard' = IF mounted THEN [dashboard EXCEPT !.loading = TRUE] ELSE dashboard
  /\ inFlight' = Append(inFlight, [selectedModel |-> name])

\* the armed interval t fires
TimerTick(t) ==
  /\ Len(inFlight) < MaxInFlight
  /\ refreshDataStart(t.selectedModel)
  /\ UNCHANGED <<pc, engineVars, cvVars, callVars, betaVars, walkVars, lastCycle,
                 mounted, refreshInterval, timers>>

\* a model button is clicked: setSelectedModel(m); when the value changes the
\* component renders again, refreshData is a new function, the cleanup of
\* the interval effect runs, the effect that depends on refreshData calls it
\* and the interval effect arms an interval with it
SelectModel(m) ==
  /\ mounted
  /\ m # dashboard.selectedModel
  /\ Len(inFlight) < MaxInFlight
  /\ dashboard' = [dashboard EXCEPT !.selectedModel = m, !.loading = TRUE]
  /\ inFlight' = Append(inFlight, [selectedModel |-> m])
  /\ timers' = setIntervalOf(clearIntervalOf(timers, refreshInterval), m)
  /\ refreshInterval' = <<NewIntervalId(clearIntervalOf(timers, refreshInterval))>>
  /\ UNCHANGED <<pc, engineVars, cvVars, callVars, betaVars, walkVars, lastCycle, mounted>>

\* the component is unmounted: the cleanup of the interval effect runs
Unmount ==
  /\ mounted
  /\ mounted' = FALSE
  /\ timers' = clearIntervalOf(timers, refreshInterval)
  /\ UNCHANGED <<pc, engineVars, cvVars, callVars, betaVars, walkVars, dashboard,
                 inFlight, lastCycle, refreshInterval>>

\* both fetches of the invocation at position i have settled and it resumes;
\* the state setters of an unmounted component do nothing
ResumeRefresh(i, in) ==
  /\ dashboard' = IF mounted THEN dashboardAfter(in, inFlight[i].selectedModel)
                  ELSE dashboard
  /\ lastCycle' = IF mounted THEN lastCycleOf(in, inFlight[i].selectedModel)
                  ELSE lastCycle
  /\ inFlight' = RemoveAt(inFlight, i)
  /\ UNCHANGED <<pc, engineVars, cvVars, callVars, betaVars, walkVars,
                 mounted, refreshInterval, timers>>

NextDash ==
  \/ \E t \in timers : TimerTick(t)
  \/ \E m \in ModelButtons : SelectModel(m)
  \/ \E i \in 1..Len(inFlight) : \E in \in RefreshInputs : ResumeRefresh(i, in)
  \/ Unmount

SpecDash == InitDash /\ [][NextDash]_vars

\* the same, every fetch settling in the end
SpecDashLive ==
  SpecDash /\ WF_vars(\E i \in 1..Len(inFlight) : \E in \in RefreshInputs : ResumeRefresh(i, in))

(***************************************************************************)
(* Properties of generatePriceFromWeather (checked under SpecGen)          *)
(***************************************************************************)
KnownModels == {"Linear Regression", "Random Forest", "Gradient Boosting"}

Records == series.value

\* the weather sample record k was made from
SourceSample(k) == sortedWeatherOf(weatherData)[k]

\* the entries of spotPrices whose hour key is that of record k's sample
HourMatches(k) ==
  {j \in 1..Len(spotPrices) :
     /\ Len(spotPrices[j].timestamp) > 0
     /\ toHourIso(spotPrices[j].timestamp) = toHourIso(SourceSample(k).time)}

\* those of them that carry a finite price
FiniteMatches(k) == {j \in HourMatches(k) : IsFinite(spotPrices[j].price)}

Last(S) == CHOOSE j \in S : \A i \in S : i <= j

HasActual(r) == Len(r.actualPrice) > 0

\* C1 as stated: a record has an actualPrice exactly when its sample is not a
\* forecast and some entry of the price series falls in the sample's hour;
\* no future record carries one.
C1_AnyHourMatch ==
  (pc = "generated" /\ ~series.threw) =>
    \A k \in 1..Len(Records) :
      /\ HasActual(Records[k]) <=>
           (~SourceSample(k).isForecast /\ HourMatches(k) # {})
      /\ Records[k].isFuture => ~HasActual(Records[k])

\* C1, amended: a record has an actualPrice exactly when its sample is not a
\* forecast and some entry with a finite price falls in the sample's hour;
\* no future record carries one.
C1_FiniteHourMatch ==
  (pc = "generated" /\ ~series.threw) =>
    \A k \in 1..Len(Records) :
      /\ HasActual(Records[k]) <=>
           (~SourceSample(k).isForecast /\ FiniteMatches(k) # {})
      /\ Records[k].isFuture => ~HasActual(Records[k])

\* a call that returned a scored record and a future record whose hour has a
\* finite market price
C1_Witness ==
  /\ pc = "generated" /\ ~series.threw
  /\ \E k \in 1..Len(Records) : HasActual(Records[k])
  /\ \E k \in 1..Len(Records) :
       Records[k].isFuture /\ FiniteMatches(k) # {} /\ ~HasActual(Records[k])

\* C2 as stated: a defined actualPrice is the rounded price of the last entry
\* of the price series in the record's hour, and it is the same under the
\* default model name.
C2_LastEntry ==
  /\ (pc \in {"generated", "remodelled"} /\ ~series.threw) =>
       \A k \in 1..Len(Records) :
         HasActual(Records[k]) =>
           /\ HourMatches(k) # {}
           /\ IsFinite(spotPrices[Last(HourMatches(k))].price)
           /\ Records[k].actualPrice =
                Num(Round2(RInt(spotPrices[Last(HourMatches(k))].price[1])))
  /\ (pc = "remodelled" /\ ~series.threw /\ ~otherSeries.threw) =>
       \A k \in 1..Len(Records) :
         Records[k].actualPrice = otherSeries.value[k].actualPrice

\* C2, amended: a defined actualPrice is the rounded price of the last entry
\* with a finite price in the record's hour, and it is the same under the
\* default model name.
C2_LastFiniteEntry ==
  /\ (pc \in {"generated", "remodelled"} /\ ~series.threw) =>
       \A k \in 1..Len(Records) :
         HasActual(Records[k]) =>
           /\ FiniteMatches(k) # {}
           /\ Records[k].actualPrice =
                Num(Round2(RInt(spotPrices[Last(FiniteMatches(k))].price[1])))
  /\ (pc = "remodelled" /\ ~series.threw /\ ~otherSeries.threw) =>
       \A k \in 1..Len(Records) :
         Records[k].actualPrice = otherSeries.value[k].actualPrice

\* a scored record whose hour has two finite prices that differ, compared
\* with the call under the default model name
C2_Witness ==
  /\ pc = "remodelled" /\ ~series.threw
  /\ modelType # otherModel
  /\ \E k \in 1..Len(Records) :
       /\ HasActual(Records[k])
       /\ \E i, j \in FiniteMatches(k) : spotPrices[i].price # spotPrices[j].price

\* C3 as stated: every returned record has a predictedPrice that is a number
\* of the interval [-20, 450].
C3_PredictedInRange ==
  (pc = "generated" /\ ~series.threw) =>
    \A k \in 1..Len(Records) :
      /\ IsFinite(Records[k].predictedPrice)
      /\ Eur(ClampLow) <= Records[k].predictedPrice[1]
      /\ Records[k].predictedPrice[1] <= Eur(ClampHigh)

\* C4 as stated: the call on a permutation of the weather list returns what
\* the call on the list returns.
C4_AnyPermutation ==
  pc = "shuffled" => otherSeries = series

\* no two samples of the list at the same instant
DistinctInstants(ws) ==
  \A i, j \in 1..Len(ws) : i # j => ws[i].time # ws[j].time

\* C4, amended: when no two samples are at the same instant (several may
\* share an hour), the call on a permutation of the weather list has the
\* outcome of the call on the list: the same records, one by one.
C4_DistinctInstants ==
  (pc = "shuffled" /\ DistinctInstants(weatherData)) => otherSeries = series

\* a reordered list of distinct instants, two of them in the same hour, on
\* which the call returned
C4_Witness ==
  /\ pc = "shuffled"
  /\ ~series.threw
  /\ DistinctInstants(weatherData)
  /\ otherWeather # weatherData
  /\ \E i, j \in 1..Len(weatherData) :
       i # j /\ toHourIso(weatherData[i].time) = toHourIso(weatherData[j].time)

\* C5 as stated: a model name outside the table gives the output of
\* "Gradient Boosting".
C5_UnknownIsGradientBoosting ==
  (pc = "remodelled" /\ modelType \notin KnownModels) => series = otherSeries

\* C6 as stated: one record per sample, in chronological order, record k
\* carrying the temperature and the forecast flag of sample k of the sorted
\* input.
C6_OneRecordPerSample ==
  pc = "generated" =>
    /\ ~series.threw
    /\ Len(Records) = Len(weatherData)
    /\ \A k \in 1..(Len(Records) - 1) :
         Records[k].timestamp <= Records[k + 1].timestamp
    /\ \A k \in 1..Len(Records) :
         /\ Records[k].temperature = SourceSample(k).temperature
         /\ Records[k].isFuture = SourceSample(k).isForecast

\* C7 as stated: the call returns a list, whatever the timestamps are.
C7_NeverThrows ==
  pc = "generated" => ~series.threw

(***************************************************************************)
(* Properties of performTimeSeriesCV (checked under SpecCV)                *)
(***************************************************************************)
IsQualifying(point) == Len(point.actualPrice) > 0 /\ ~point.isFuture

\* the qualifying points of the argument, in input order
Qualifying == SelectSeq(cvData, IsQualifying)

TestSizeSum == SumSeq([i \in 1..Len(cvResults) |-> cvResults[i].testSize])

\* C8: fewer than 12 qualifying points give no fold; 12 or more give exactly
\* the folds 1, 2, 3, 4 in that order.
C8_FourFoldsFromTwelve ==
  pc = "validated" =>
    /\ Len(Qualifying) < 12 => cvResults = <<>>
    /\ Len(Qualifying) >= 12 =>
         /\ Len(cvResults) = 4
         /\ \A i \in 1..4 : cvResults[i].fold = i

\* exactly 12 qualifying points among others that the filter dropped
C8_Witness ==
  /\ pc = "validated"
  /\ Len(Qualifying) = 12
  /\ Len(cvData) > 12
  /\ Len(cvResults) = 4

\* C9 as stated: trainSize is i * foldSize, the last test window ends at N
\* and the testSize values sum to N - foldSize.
C9_LastFoldAbsorbs ==
  (pc = "validated" /\ Len(Qualifying) >= 12) =>
    /\ \A i \in 1..4 : cvResults[i].trainSize = i * (Len(Qualifying) \div 5)
    /\ cvFolds[4].testEnd = Len(Qualifying)
    /\ TestSizeSum = Len(Qualifying) - (Len(Qualifying) \div 5)

\* C9, amended: trainSize is i * foldSize, every fold (the last included)
\* tests exactly the foldSize points behind its training prefix, so the last
\* window ends at 5 * foldSize, the N mod 5 points behind it are in no window
\* and the testSize values sum to 4 * foldSize.
C9_EveryFoldTestsFoldSize ==
  (pc = "validated" /\ Len(Qualifying) >= 12) =>
    /\ \A i \in 1..4 :
         /\ cvResults[i].trainSize = i * (Len(Qualifying) \div 5)
         /\ cvResults[i].testSize = Len(Qualifying) \div 5
         /\ cvFolds[i].testEnd = (i + 1) * (Len(Qualifying) \div 5)
    /\ cvFolds[4].testEnd = Len(Qualifying) - (Len(Qualifying) % 5)
    /\ TestSizeSum = 4 * (Len(Qualifying) \div 5)

\* a run on a number of qualifying points that is no multiple of 5
C9_Witness ==
  /\ pc = "validated"
  /\ Len(Qualifying) >= 12
  /\ Len(Qualifying) % 5 # 0
  /\ Len(cvResults) = 4

Chronological(data) ==
  \A k \in 1..(Len(data) - 1) : data[k].timestamp <= data[k + 1].timestamp

\* the positions of fold i's test window in the qualifying list
Window(i) == (cvFolds[i].trainEnd + 1)..cvFolds[i].testEnd

\* C10: each test window is the contiguous range of the qualifying list
\* (taken in input order) that starts where the fold's training prefix of
\* trainSize points ends; the windows are pairwise disjoint, each lying after
\* the one before; on a chronological input no test point is earlier than a
\* point of its own training prefix.
C10_ForwardChaining ==
  pc = "validated" =>
    \A i \in 1..Len(cvFolds) :
      /\ cvResults[i].trainSize = cvFolds[i].trainEnd
      /\ Len(cvFolds[i].testSlice) = cvFolds[i].testEnd - cvFolds[i].trainEnd
      /\ cvResults[i].testSize = Len(cvFolds[i].testSlice)
      /\ \A k \in 1..Len(cvFolds[i].testSlice) :
           cvFolds[i].testSlice[k] = Qualifying[cvFolds[i].trainEnd + k]
      /\ \A j \in 1..Len(cvFolds) : j # i => Window(i) \cap Window(j) = {}
      /\ i < Len(cvFolds) => cvFolds[i].testEnd <= cvFolds[i + 1].trainEnd
      /\ Chronological(cvData) =>
           \A k \in 1..Len(cvFolds[i].testSlice) :
             \A q \in 1..cvFolds[i].trainEnd :
               Qualifying[q].timestamp <= cvFolds[i].testSlice[k].timestamp

\* four folds over a chronological series in which dropped points stand
\* between the qualifying ones
C10_Witness ==
  /\ pc = "validated"
  /\ Len(cvFolds) = 4
  /\ Chronological(cvData)
  /\ \E k \in 2..(Len(cvData) - 1) : ~IsQualifying(cvData[k])

\* C11: performTimeSeriesCV and computeAggregateMetrics return what they
\* return on the qualifying points alone (so points that are future or have
\* no actualPrice change nothing), and without a qualifying point the
\* aggregate metrics are 0, 0, 0.
C11_OnlyQualifyingPoints ==
  pc = "validated" =>
    /\ cvResults = performTimeSeriesCV(Qualifying)
    /\ cvMetrics = computeAggregateMetrics(Qualifying)
    /\ Qualifying = <<>> =>
         cvMetrics = [mae |-> Num(0), rmse |-> Num(0), r2 |-> Num(0)]

\* a run with folds on a series that holds a future point with an
\* actualPrice among the qualifying ones
C11_Witness ==
  /\ pc = "validated"
  /\ Len(cvResults) = 4
  /\ \E k \in 1..Len(cvData) : cvData[k].isFuture /\ Len(cvData[k].actualPrice) > 0

(***************************************************************************)
(* Properties of computeAggregateMetrics (checked under SpecAgg)           *)
(***************************************************************************)
Actuals == [i \in 1..Len(cvData) |-> cvData[i].actualPrice[1]]

AllActualsEqual == \A i \in 1..Len(cvData) : Actuals[i] = Actuals[1]

\* C12 as stated, for the r2 = 0 and the r2 = 1 cases: r2 = 0 when all actual
\* prices are equal, whatever the predictions; mae = 0, rmse = 0 and r2 = 1
\* when every prediction is its actual price and the actual prices differ.
C12_ZeroVarianceGivesZero ==
  (pc = "measured" /\ Len(cvData) > 0) =>
    /\ AllActualsEqual => cvMetrics.r2 = Num(0)
    /\ (~AllActualsEqual
          /\ \A i \in 1..Len(cvData) : cvData[i].predictedPrice = cvData[i].actualPrice)
         => cvMetrics = [mae |-> Num(0), rmse |-> Num(0), r2 |-> Num(Eur(1))]

HeatingDemandOf(i) == RMax(RInt(0), RSub(RInt(comfortTemp), pairsArg[i].temperature))

\* C14 as stated: the estimate lies in [-2.5, 6], and it is exactly 0 for
\* fewer than 2 pairs and whenever all heating demands are identical,
\* whatever the prices.
C14_ZeroOnIdenticalDemands ==
  pc = "estimated" =>
    /\ ~RLess(betaOut, Rat(BetaLowTenths, 10))
    /\ ~RLess(RInt(BetaHigh), betaOut)
    /\ Len(pairsArg) < 2 => betaOut = RInt(0)
    /\ (\A i \in 1..Len(pairsArg) : HeatingDemandOf(i) = HeatingDemandOf(1))
         => betaOut = RInt(0)

(***************************************************************************)
(* Properties of the pass over the samples (checked under SpecWalk)        *)
(***************************************************************************)
WalkSteps == walk.steps

\* actualPrice if defined, else predictedPrice, of the sample at position j
RealizedOf(j) ==
  IF Len(WalkSteps[j].actualPrice) > 0 THEN Num(RInt(WalkSteps[j].actualPrice[1]))
  ELSE IF IsFinite(WalkSteps[j].predictedPrice)
       THEN Num(RInt(WalkSteps[j].predictedPrice[1]))
       ELSE NaN

\* the samples processed before position k whose hour key is the given one
ProcessedAt(k, hourKey) ==
  {j \in 1..(k - 1) : WalkSteps[j].timestamp = hourKey}

ExpectedLag1(k) ==
  IF ProcessedAt(k, WalkSteps[k].timestamp - MinutesPerHour) # {}
  THEN RealizedOf(Last(ProcessedAt(k, WalkSteps[k].timestamp - MinutesPerHour)))
  ELSE IF k = 1 THEN walk.globalMean ELSE RealizedOf(k - 1)

ExpectedLag24(k) ==
  IF ProcessedAt(k, WalkSteps[k].timestamp - HoursPerDay * MinutesPerHour) # {}
  THEN RealizedOf(Last(ProcessedAt(k, WalkSteps[k].timestamp - HoursPerDay * MinutesPerHour)))
  ELSE walk.globalMean

\* C15: lag1 of a sample is the realized price of the latest processed sample
\* whose hour key is one hour earlier, else that of the sample just before
\* it (globalMean for the first); lag24 is the realized price of the latest
\* processed sample whose hour key is 24 hours earlier, else globalMean;
\* the prediction of the sample is made from these two values, which come
\* from samples processed before it.
C15_LagsFromProcessedSamples ==
  pc = "walked" =>
    \A k \in 1..Len(WalkSteps) :
      /\ WalkSteps[k].lag1 = ExpectedLag1(k)
      /\ WalkSteps[k].lag24 = ExpectedLag24(k)
      /\ Records[k].predictedPrice =
           predictedPriceOf(ContextOf(weatherData, spotPrices, modelType),
                            SourceSample(k), ExpectedLag1(k), ExpectedLag24(k),
                            WalkSteps[k].hourMean)

\* a pass in which a sample finds two processed samples one hour before it
\* and another finds one 24 hours before it
C15_Witness ==
  /\ pc = "walked"
  /\ \E k \in 1..Len(WalkSteps) :
       Cardinality(ProcessedAt(k, WalkSteps[k].timestamp - MinutesPerHour)) = 2
  /\ \E k \in 1..Len(WalkSteps) :
       ProcessedAt(k, WalkSteps[k].timestamp - HoursPerDay * MinutesPerHour) # {}

\* the historical pairs of the pass: the past samples, in time order, whose
\* hour has a market price
HistoricalPairsOfPass ==
  historicalPairsOf(sortedWeatherOf(weatherData),
                    marketPriceMapOf(spotPrices, Len(spotPrices)))

HistoricalPrices ==
  [i \in 1..Len(HistoricalPairsOfPass) |-> HistoricalPairsOfPass[i].price]

\* C16: globalMean is the arithmetic mean of the prices of the historical
\* pairs whenever there is at least one pair, whatever the sign of that
\* mean, and 30 exactly when there is none.
C16_GlobalMeanIsMean ==
  pc = "walked" =>
    /\ Len(HistoricalPairsOfPass) > 0 =>
         walk.globalMean = Num(Rat(SumSeq(HistoricalPrices), Len(HistoricalPrices)))
    /\ Len(HistoricalPairsOfPass) = 0 <=> walk.globalMean = Num(RInt(Eur(30)))

\* the prices of the historical pairs observed at the UTC hour of sample k
PricesAtHourOf(k) ==
  PricesAtHour(HistoricalPairsOfPass, getUTCHours(WalkSteps[k].timestamp))

HourMeanOfPrices(k) == Rat(SumSeq(PricesAtHourOf(k)), Len(PricesAtHourOf(k)))

\* C17: hourMean of a sample is the mean of the historical prices of its UTC
\* hour of day when that mean is greater than 0, and globalMean otherwise;
\* an hour without a historical price gives globalMean.
C17_HourMeanOrGlobalMean ==
  pc = "walked" =>
    \A k \in 1..Len(WalkSteps) :
      IF Len(PricesAtHourOf(k)) > 0 /\ HourMeanOfPrices(k).n > 0
      THEN Num(WalkSteps[k].hourMean) = Num(HourMeanOfPrices(k))
      ELSE Num(WalkSteps[k].hourMean) = walk.globalMean

\* a pass with a sample whose hour has a positive mean over two prices and
\* one whose hour has no historical price, whose profile slot is 0
C17_Witness ==
  /\ pc = "walked"
  /\ \E k \in 1..Len(WalkSteps) :
       /\ Len(PricesAtHourOf(k)) = 2
       /\ HourMeanOfPrices(k).n > 0
       /\ Num(WalkSteps[k].hourMean) # walk.globalMean
  /\ \E k \in 1..Len(WalkSteps) :
       /\ Len(PricesAtHourOf(k)) = 0
       /\ Num(WalkSteps[k].hourMean) = walk.globalMean
       /\ walk.globalMean # Num(RInt(0))

(***************************************************************************)
(* Properties of the refresh cycles of the dashboard (checked under        *)
(* SpecDash)                                                               *)
(***************************************************************************)
\* the entry of a cycle's perModel that was computed under the given name
EntryFor(in, name) ==
  PerModelTable[in][CHOOSE k \in 1..Len(modelMetrics) : modelMetrics[k].name = name]

\* data, cvResults and the per-model metrics are those computed from the
\* given fetch results for the given model
Displays(d, in, name) ==
  /\ d.data = EntryFor(in, name).data
  /\ d.cvResults = EntryFor(in, name).cv
  /\ \A k \in 1..Len(modelMetrics) :
       /\ d.liveModelMetrics[k].name = modelMetrics[k].name
       /\ d.liveModelMetrics[k].cvResults = PerModelTable[in][k].cv
       /\ d.liveModelMetrics[k].mae = PerModelTable[in][k].metrics.mae

SameDisplay(d, e) ==
  /\ d.data = e.data
  /\ d.cvResults = e.cvResults
  /\ d.liveModelMetrics = e.liveModelMetrics

\* C18: no refresh cycle is cancelled or made to wait for another: a cycle
\* stays in flight, whatever starts meanwhile, until it resumes; the cycle
\* that resumes writes data, cvResults and the per-model metrics for the
\* model it was started with, whichever model is selected by then, and
\* nothing else writes them (the setters of an unmounted component write
\* nothing).
C18_LastFinisherWins ==
  [][ IF Len(inFlight') < Len(inFlight)
      THEN \E i \in 1..Len(inFlight) :
             /\ inFlight' = RemoveAt(inFlight, i)
             /\ dashboard'.selectedModel = dashboard.selectedModel
             /\ IF mounted
                THEN /\ lastCycle'.finished
                     /\ lastCycle'.selectedModel = inFlight[i].selectedModel
                     /\ IF lastCycle'.threw THEN SameDisplay(dashboard', dashboard)
                        ELSE Displays(dashboard', lastCycle'.input,
                                      inFlight[i].selectedModel)
                ELSE SameDisplay(dashboard', dashboard)
      ELSE /\ \A i \in 1..Len(inFlight) : inFlight'[i] = inFlight[i]
           /\ SameDisplay(dashboard', dashboard) ]_vars

\* no cycle is in flight and the series on display is the one of a model
\* that is not the selected one, written by a cycle started for that model
C18_Witness ==
  /\ mounted
  /\ inFlight = <<>>
  /\ lastCycle.finished
  /\ ~lastCycle.threw
  /\ lastCycle.selectedModel # dashboard.selectedModel
  /\ dashboard.data = EntryFor(lastCycle.input, lastCycle.selectedModel).data
  /\ dashboard.data # EntryFor(lastCycle.input, dashboard.selectedModel).data
  /\ dashboard.cvResults # <<>>
  /\ ~dashboard.loading

\* C19: a model switch recomputes the display for the new model from the
\* data of the last fetch, in the same step, starts no fetch and does not
\* enter a state that awaits the network.
C19_SwitchRecomputesSynchronously ==
  [][ dashboard'.selectedModel # dashboard.selectedModel =>
        /\ inFlight' = inFlight
        /\ dashboard'.loading = dashboard.loading
        /\ (lastCycle.finished /\ ~lastCycle.threw) =>
             Displays(dashboard', lastCycle.input, dashboard'.selectedModel) ]_vars

IsHourlyFallback(ws, now) ==
  /\ Len(ws) = 48
  /\ \A k \in 1..Len(ws) : ws[k].time = <<now + (k - 25) * MinutesPerHour>>
  /\ Cardinality({k \in 1..Len(ws) : ~ws[k].isForecast /\ ws[k].time[1] < now}) = 24
  /\ Cardinality({k \in 1..Len(ws) : ws[k].isForecast /\ ws[k].time[1] >= now}) = 24

\* C20: when the weather fetch or the price fetch of a cycle gave an empty
\* list, the cycle completes with a populated display, an empty weather
\* list having been replaced by 48 hourly samples, 24 past and 24 forecast,
\* and the error state holds a warning once the cycle has finished.
C20_FailureSurfacedAsWarning ==
  (mounted /\ lastCycle.finished /\ (Len(lastCycle.weatherTimeline) = 0
                                       \/ Len(lastCycle.spotTimeline) = 0)) =>
    /\ ~lastCycle.threw
    /\ Len(dashboard.data) > 0
    /\ Len(dashboard.data) = Len(lastCycle.processedWeather)
    /\ Len(lastCycle.weatherTimeline) = 0 =>
         IsHourlyFallback(lastCycle.processedWeather, lastCycle.input.now)
    /\ dashboard.error # Null

\* C21: while the dashboard is mounted exactly one periodic timer is armed,
\* it is the one refreshInterval.current refers to and it calls the
\* refreshData of the selected model, so that every cycle started without a
\* model switch, that is by a timer, is one for the model selected at that
\* moment; once the dashboard is unmounted no timer is armed.
C21_OneTimerForSelectedModel ==
  /\ [](/\ Cardinality(timers) <= 1
        /\ mounted =>
             timers = {[id |-> refreshInterval[1],
                        selectedModel |-> dashboard.selectedModel]}
        /\ ~mounted => timers = {})
  /\ [][ (Len(inFlight') > Len(inFlight)
            /\ dashboard'.selectedModel = dashboard.selectedModel)
           => /\ mounted
              /\ inFlight'[Len(inFlight')].selectedModel = dashboard.selectedModel ]_vars

\* after two model switches the single armed timer has fired for the model
\* selected now: its cycle is in flight next to the one of the switch
C21_Witness ==
  /\ mounted
  /\ dashboard.selectedModel = "Random Forest"
  /\ lastCycle.finished
  /\ lastCycle.selectedModel = "Linear Regression"
  /\ Cardinality(timers) = 1
  /\ Len(inFlight) = 2
  /\ \A i \in 1..Len(inFlight) : inFlight[i].selectedModel = dashboard.selectedModel

\* a timer fires, a model button is clicked or the component is unmounted
Trigger ==
  \/ \E t \in timers : TimerTick(t)
  \/ \E m \in ModelButtons : SelectModel(m)
  \/ Unmount

\* C22: while the dashboard is mounted, a step that starts a cycle leaves
\* loading true and a step that ends one, by success or by exception, leaves
\* it false, and no other step changes loading, so that loading is true all
\* the time a cycle that overlaps no other is in flight; and when every
\* fetch settles in the end and triggers stop while the dashboard is mounted,
\* loading is false from some moment on.
C22_LoadingFollowsCycles ==
  /\ [][ /\ (mounted /\ Len(inFlight') > Len(inFlight)) => dashboard'.loading
         /\ (mounted /\ Len(inFlight') < Len(inFlight)) => ~dashboard'.loading
         /\ Len(inFlight') = Len(inFlight) => dashboard'.loading = dashboard.loading ]_vars
  /\ [](mounted /\ inFlight = <<>> => ~dashboard.loading)
  /\ ([]<><<Trigger>>_vars
        \/ <>[](mounted => (inFlight = <<>> /\ ~dashboard.loading)))

\* a cycle that threw has ended, none is in flight and loading is false
C22_Witness ==
  /\ mounted
  /\ inFlight = <<>>
  /\ lastCycle.finished
  /\ lastCycle.threw
  /\ dashboard.error = InvalidTimeValue
  /\ ~dashboard.loading

====
